---- MODULE Spec2Model ----
(***************************************************************************)
(* A model of the prompt renderer of src/main.rs: the DecoratedString tree *)
(* and its ANSI rendering, Color::hex_to_rgb, the repository probe          *)
(* get_git_info, the nix-shell probe and main's assembly of the output.     *)
(*                                                                          *)
(* A Rust String is modelled as the sequence of its characters, each a      *)
(* TLA+ string naming it; Width gives the UTF-8 width of a character, so    *)
(* that byte lengths and byte slices are computed as Rust computes them.    *)
(* Rendered output, which is only ever concatenated, is a TLA+ string.      *)
(***************************************************************************)
EXTENDS Integers, Sequences, FiniteSets, TLC

VARIABLES
    pc,          \* position of the run
    shell_type,  \* main's shell_type, the parameter of its escape_ansi closure
    tree,        \* rendering run: the DecoratedString under construction
    out,         \* rendering run: the result of to_ansi
    hexIn,       \* hex run: the argument of hex_to_rgb
    hexOut,      \* hex run: the result of hex_to_rgb
    fs,          \* the directory tree get_git_info runs in
    git,         \* get_git_info's local variables
    steps,       \* history: the steps get_git_info has attempted, in order
    reads,       \* history: the files get_git_info has asked to read, in order
    results,     \* main's vector of probe results
    debug,       \* PROMPT_DEBUG as main read it
    stdout,      \* what main has printed to standard output
    stderr,      \* what main has printed to standard error
    panic        \* the panic that ended the run, if any

vars == <<pc, shell_type, tree, out, hexIn, hexOut, fs, git, steps, reads,
          results, debug, stdout, stderr, panic>>

None == [some |-> FALSE]
Some(v) == [some |-> TRUE, val |-> v]

(***************************************************************************)
(* Strings                                                                 *)
(***************************************************************************)

\* The character U+00E9 (e with an acute accent), two bytes in UTF-8.
Eacute == "U+00E9"

\* UTF-8 width of a character: every character of the model is ASCII but
\* Eacute.
Width(c) == IF c = Eacute THEN 2 ELSE 1

RECURSIVE ByteLen(_)
\* str::len: the length in bytes
ByteLen(s) == IF s = <<>> THEN 0 ELSE Width(Head(s)) + ByteLen(Tail(s))

\* str::is_char_boundary
IsCharBoundary(s, n) == \E k \in 0..Len(s) : ByteLen(SubSeq(s, 1, k)) = n

\* The characters of s that lie in the byte range a..b (a and b boundaries).
ByteRange(s, a, b) ==
    LET i == CHOOSE k \in 0..Len(s) : ByteLen(SubSeq(s, 1, k)) = a
        j == CHOOSE k \in 0..Len(s) : ByteLen(SubSeq(s, 1, k)) = b
    IN  SubSeq(s, i + 1, j)

\* &s[a..b]: panics unless a <= b and both are character boundaries of s
SliceOk(s, a, b) == a <= b /\ IsCharBoundary(s, a) /\ IsCharBoundary(s, b)

RECURSIVE Str(_)
\* The characters of s as one string (format!("{}", s)).
Str(s) == IF s = <<>> THEN "" ELSE Head(s) \o Str(Tail(s))

StartsWith(s, p) == Len(p) <= Len(s) /\ SubSeq(s, 1, Len(p)) = p

\* str::strip_prefix
strip_prefix(s, p) ==
    IF StartsWith(s, p) THEN Some(SubSeq(s, Len(p) + 1, Len(s))) ELSE None

IsWhitespace(c) == c \in {" ", "\n", "\t", "\r"}

RECURSIVE trim_start(_)
trim_start(s) ==
    IF s # <<>> /\ IsWhitespace(Head(s)) THEN trim_start(Tail(s)) ELSE s

RECURSIVE trim_end(_)
trim_end(s) ==
    IF s # <<>> /\ IsWhitespace(s[Len(s)])
    THEN trim_end(SubSeq(s, 1, Len(s) - 1)) ELSE s

\* str::trim
trim(s) == trim_end(trim_start(s))

RECURSIVE trim_start_matches(_, _)
\* str::trim_start_matches(c): every leading c is removed
trim_start_matches(s, c) ==
    IF s # <<>> /\ Head(s) = c THEN trim_start_matches(Tail(s), c) ELSE s

(***************************************************************************)
(* Color                                                                   *)
(***************************************************************************)

HexDigits == <<"0", "1", "2", "3", "4", "5", "6", "7", "8", "9",
               "a", "b", "c", "d", "e", "f">>
UpperHexDigits == <<"0", "1", "2", "3", "4", "5", "6", "7", "8", "9",
                    "A", "B", "C", "D", "E", "F">>

\* char::to_digit(16): the digit's value, or -1
to_digit(c) ==
    IF \E i \in 1..16 : HexDigits[i] = c
    THEN (CHOOSE i \in 1..16 : HexDigits[i] = c) - 1
    ELSE IF \E i \in 1..16 : UpperHexDigits[i] = c
    THEN (CHOOSE i \in 1..16 : UpperHexDigits[i] = c) - 1
    ELSE -1

RECURSIVE DigitsValue(_, _)
\* The value of a digit sequence after acc, or -1 at an invalid digit or
\* on overflow of u8.
DigitsValue(s, acc) ==
    IF s = <<>> THEN acc
    ELSE IF to_digit(Head(s)) < 0 \/ acc * 16 + to_digit(Head(s)) > 255 THEN -1
    ELSE DigitsValue(Tail(s), acc * 16 + to_digit(Head(s)))

\* u8::from_str_radix(s, 16): -1 stands for Err. An unsigned type accepts one
\* leading '+' before at least one digit, and no '-'.
from_str_radix(s) ==
    IF s = <<>> THEN -1
    ELSE IF s = <<"+">> \/ s = <<"-">> THEN -1
    ELSE IF Head(s) = "+" THEN DigitsValue(Tail(s), 0)
    ELSE DigitsValue(s, 0)

unwrap_or(v, d) == IF v < 0 THEN d ELSE v

Panicked == [panic |-> TRUE]
Rgb(r, g, b) == [panic |-> FALSE, rgb |-> <<r, g, b>>]

\* Color::hex_to_rgb
hex_to_rgb(hex) ==
    LET h == trim_start_matches(hex, "#")
    IN  IF ByteLen(h) # 6 THEN Rgb(255, 255, 255)
        ELSE IF ~SliceOk(h, 0, 2) THEN Panicked
        ELSE IF ~SliceOk(h, 2, 4) THEN Panicked
        ELSE IF ~SliceOk(h, 4, 6) THEN Panicked
        ELSE Rgb(unwrap_or(from_str_radix(ByteRange(h, 0, 2)), 255),
                 unwrap_or(from_str_radix(ByteRange(h, 2, 4)), 255),
                 unwrap_or(from_str_radix(ByteRange(h, 4, 6)), 255))

NamedColors == <<"Black", "Red", "Green", "Yellow", "Blue", "Magenta", "Cyan",
                 "White", "BrightBlack", "BrightRed", "BrightGreen",
                 "BrightYellow", "BrightBlue", "BrightMagenta", "BrightCyan",
                 "BrightWhite">>

Named(n) == [kind |-> n]
ColorRgb(r, g, b) == [kind |-> "Rgb", r |-> r, g |-> g, b |-> b]
ColorHex(h) == [kind |-> "Hex", hex |-> h]

NamedIndex(n) == CHOOSE i \in 1..16 : NamedColors[i] = n

\* format!("{};2;{};{};{}", ...) of the 24-bit form
TrueColor(lead, rgb) ==
    lead \o ";2;" \o ToString(rgb[1]) \o ";" \o ToString(rgb[2]) \o ";"
         \o ToString(rgb[3])

\* Whether computing the color's code panics (in hex_to_rgb).
ColorPanics(color) == color.kind = "Hex" /\ hex_to_rgb(color.hex).panic

\* Color::to_ansi: 30-37 and 90-97 for the named colors
to_ansi_fg(color) ==
    IF color.kind = "Rgb" THEN TrueColor("38", <<color.r, color.g, color.b>>)
    ELSE IF color.kind = "Hex" THEN TrueColor("38", hex_to_rgb(color.hex).rgb)
    ELSE LET i == NamedIndex(color.kind)
         IN  ToString(IF i <= 8 THEN 29 + i ELSE 81 + i)

\* Color::to_ansi_bg: 40-47 and 100-107 for the named colors
to_ansi_bg(color) ==
    IF color.kind = "Rgb" THEN TrueColor("48", <<color.r, color.g, color.b>>)
    ELSE IF color.kind = "Hex" THEN TrueColor("48", hex_to_rgb(color.hex).rgb)
    ELSE LET i == NamedIndex(color.kind)
         IN  ToString(IF i <= 8 THEN 39 + i ELSE 91 + i)

(***************************************************************************)
(* DecoratedString                                                         *)
(***************************************************************************)

\* The escape character 0x1b, written out.
ESC == "ESC"

Default(s) == [tag |-> "Default", val |-> s]
new(s) == Default(s)
bold(t) == [tag |-> "Bold", inner |-> t]
colored(t, color) == [tag |-> "Colored", inner |-> t, color |-> color]
background(t, color) == [tag |-> "Background", inner |-> t, color |-> color]
underlined(t) == [tag |-> "Underlined", inner |-> t]
italic(t) == [tag |-> "Italic", inner |-> t]

\* main's closure escape_ansi, for the shell type it captured
escape_ansi(shell, s) ==
    IF shell = "zsh" THEN "%{" \o s \o "%}"
    ELSE IF shell = "bash" THEN "\\[" \o s \o "\\]"
    ELSE s

\* The code a wrapper writes before its child.
StartCode(t) ==
    CASE t.tag = "Bold" -> ESC \o "[1m"
      [] t.tag = "Colored" -> ESC \o "[" \o to_ansi_fg(t.color) \o "m"
      [] t.tag = "Background" -> ESC \o "[" \o to_ansi_bg(t.color) \o "m"
      [] t.tag = "Underlined" -> ESC \o "[4m"
      [] t.tag = "Italic" -> ESC \o "[3m"

\* The code a wrapper writes after its child.
EndCode(t) ==
    CASE t.tag = "Bold" -> ESC \o "[22m"
      [] t.tag = "Colored" -> ESC \o "[39m"
      [] t.tag = "Background" -> ESC \o "[49m"
      [] t.tag = "Underlined" -> ESC \o "[24m"
      [] t.tag = "Italic" -> ESC \o "[23m"

RECURSIVE append_to_ansi(_, _, _)
\* A rendering that closes a wrapper before its child is written.
append_to_ansi_closed_early(val, s, shell) ==
    IF val.tag = "Default" THEN s \o val.val
    ELSE append_to_ansi(val.inner,
                        s \o escape_ansi(shell, StartCode(val))
                          \o escape_ansi(shell, EndCode(val)), shell)

\* DecoratedString::append_to_ansi: s with the rendering of val appended
append_to_ansi(val, s, shell) ==
    IF val.tag = "Default" THEN s \o val.val
    ELSE append_to_ansi(val.inner, s \o escape_ansi(shell, StartCode(val)), shell)
             \o escape_ansi(shell, EndCode(val))

\* DecoratedString::to_ansi
to_ansi(t, shell) == append_to_ansi(t, "", shell)

RECURSIVE TreePanics(_)
\* Whether rendering t panics: a color of it panics in hex_to_rgb.
TreePanics(t) ==
    IF t.tag = "Default" THEN FALSE
    ELSE (t.tag \in {"Colored", "Background"} /\ ColorPanics(t.color))
         \/ TreePanics(t.inner)

RECURSIVE Depth(_)
Depth(t) == IF t.tag = "Default" THEN 0 ELSE 1 + Depth(t.inner)

(***************************************************************************)
(* Paths (std::path, Unix)                                                 *)
(***************************************************************************)

RECURSIVE Split(_, _)
\* The pieces of s between the separators, empty pieces included.
Split(s, acc) ==
    IF s = <<>> THEN <<acc>>
    ELSE IF Head(s) = "/" THEN <<acc>> \o Split(Tail(s), <<>>)
    ELSE Split(Tail(s), Append(acc, Head(s)))

HasRoot(p) == p # <<>> /\ Head(p) = "/"

\* Path::components: empty pieces are dropped, and every "." but a leading
\* one of a relative path; the root is told by HasRoot.
Components(p) ==
    LET pieces == Split(p, <<>>)
        Keep(i) == /\ pieces[i] # <<>>
                   /\ (pieces[i] = <<".">> => (i = 1 /\ ~HasRoot(p)))
        RECURSIVE Filter(_)
        Filter(i) == IF i > Len(pieces) THEN <<>>
                     ELSE IF Keep(i) THEN <<pieces[i]>> \o Filter(i + 1)
                     ELSE Filter(i + 1)
    IN  Filter(1)

RECURSIVE JoinPieces(_)
JoinPieces(cs) ==
    IF cs = <<>> THEN <<>>
    ELSE IF Len(cs) = 1 THEN cs[1]
    ELSE cs[1] \o <<"/">> \o JoinPieces(Tail(cs))

\* The path of the given components, rooted or not.
PathOf(rooted, cs) == (IF rooted THEN <<"/">> ELSE <<>>) \o JoinPieces(cs)

\* Path::file_name: the last component when it is a normal one
file_name(p) ==
    LET cs == Components(p)
    IN  IF cs = <<>> THEN None
        ELSE IF cs[Len(cs)] \in {<<".", ".">>, <<".">>} THEN None
        ELSE Some(cs[Len(cs)])

\* Path::parent: the path without its last component; None for the root and
\* for the empty path
parent(p) ==
    LET cs == Components(p)
    IN  IF cs = <<>> THEN None
        ELSE Some(PathOf(HasRoot(p), SubSeq(cs, 1, Len(cs) - 1)))

\* Path::join (PathBuf::push): an absolute q replaces p
join(p, q) ==
    IF HasRoot(q) THEN q
    ELSE IF p = <<>> \/ p[Len(p)] = "/" THEN p \o q
    ELSE p \o <<"/">> \o q

DOT_GIT == <<".", "g", "i", "t">>
HEAD_FILE == <<"H", "E", "A", "D">>
PREFIX == <<"g", "i", "t", "d", "i", "r", ":", " ">>
REF_PREFIX == <<"r", "e", "f", ":", " ">>

\* head_content[..14]
DetachedLen == 14
\* commit_hash[..5]
ShortHashLen == 5
\* commit_hash.chars().count() > 5
TruncateOver == 5

(***************************************************************************)
(* The environment the run is given                                        *)
(***************************************************************************)

\* The deepest working directory is MaxDepth levels below the root.
MaxDepth == 2

DirNames == <<"a", "b", "c", "d", "e", "f">>

\* The canonical working directory of depth n: /a/b/c...
CwdOfDepth(n) == PathOf(TRUE, [i \in 1..n |-> <<DirNames[i]>>])

\* The directories from the working directory of depth n up to the root.
Ancestors(n) == {CwdOfDepth(k) : k \in 0..n}

FileSystems ==
    UNION {{[cwd |-> CwdOfDepth(n), gitDirs |-> G] : G \in SUBSET Ancestors(n)}
           : n \in 0..MaxDepth}

\* std::io::Error kinds a call can fail with; InvalidData is read_to_string's
\* error for bytes that are not UTF-8.
IoErrors == {"NotFound", "InvalidData"}

MarkerContents == {
    <<"g", "i", "t", "d", "i", "r", ":", " ", "/", "g", "\n">>,
    <<"g", "i", "t", "d", "i", "r", ":", " ", " ", " ", ".", ".", "/", "m", " ", "\n">>,
    <<"g", "i", "t", "d", "i", "r", ":", " ">>,
    <<"g", "i", "t", "d", "i", "r", ":", "/", "g">>,
    <<>> }

HeadContents == {
    <<"r", "e", "f", ":", " ", "r", "e", "f", "s", "/", "h", "e", "a", "d", "s", "/", "m", "a", "i", "n", "\n">>,
    <<"r", "e", "f", ":", " ", "r", "/", "m", "/">>,
    <<"r", "e", "f", ":", " ", "\n">>,
    <<"r", "e", "f", ":", " ", "r", "/", ".", ".", "\n">>,
    <<"r", "e", "f", ":", " ", ".">>,
    <<"r", "e", "f", ":", " ", "/", "x", "\n">>,
    <<"0", "1", "2", "3", "4", "5", "6", "7", "8", "9", "a", "b", "c", "d", "e", "f", "\n">>,
    <<"0", "1", "2", "3", "4", "5", "6", "7", "8", "9", "a", "b", "c", "d">>,
    <<"0", "1", "2", "3", "4", "5", "6", "7", "8", "9", "a", "b", "c">>,
    <<Eacute, "0", "1", "2", "3", "4", "5", "6", "7", "8", "9", "a", "b", "c", "d", "e", "f">>,
    <<"0", "1", "2", "3", "4", "5", "6", "7", "8", "9", "a", "b", "c", Eacute, "e", "f">>,
    <<"r", "e", "f", ":", "x", "\n">>,
    <<>> }

RefContents == {
    <<"a", "b", "c", "d", "e", "f", "0", "1", "2", "3", "\n">>,
    <<"a", "b", "c", "d", "e", "f">>,
    <<"a", "b", "c", "d", "e">>,
    <<"a", "b", "c", "d", "e", "\n">>,
    <<"a", "b", "c", "d", "\n">>,
    <<"a", "b", "c", "\n">>,
    <<Eacute, "a", "b", "c", "d">>,
    <<"a", "b", "c", "d", Eacute, "f">>,
    <<>> }

\* PROMPT_SHELL_TYPE, PROMPT_DEBUG, IN_NIX_SHELL and PATH as env::var gives
\* them: None when unset.
ShellTypes == {None, Some("zsh"), Some("bash"), Some("fish")}
DebugValues == {None, Some("1"), Some("0")}
InNixShellValues == {None, Some("pure"), Some("impure"), Some("1")}
\* PATH: unset, or set with or without an entry under /nix/store.
PathValues == {None, Some(TRUE), Some(FALSE)}
PwdValues == {None, Some(<<"/", "h", "o", "m", "e", "/", "u", "/", "p", "r", "o", "j">>)}
HomeValues == {None, Some(<<"/", "h", "o", "m", "e", "/", "u">>)}

(***************************************************************************)
(* Results and errors                                                      *)
(***************************************************************************)

Ok(v) == [ok |-> TRUE, val |-> v]
Err(e) == [ok |-> FALSE, err |-> e]

\* A GitError that wraps the std::io::Error of the failed call.
IoGitError(kind, e) == [kind |-> kind, io |-> Some(e)]
\* A GitError with no payload.
PlainGitError(kind) == [kind |-> kind, io |-> None]

\* <GitError as Display>::fmt
GitErrorMessage(e) ==
    CASE e.kind = "NoCwd" -> "failed to get cwd"
      [] e.kind = "CanonicalCwd" -> "failed to canonicalize cwd"
      [] e.kind = "ReadGitFile" -> "failed to read .git file"
      [] e.kind = "ReadHead" -> "failed to read git HEAD"
      [] e.kind = "NotGitRepo" -> "not a git repo"
      [] e.kind = "UnexpectedGitContent" -> "unexpected git content"
      [] e.kind = "ReadRef" -> "failed to read ref"
      [] e.kind = "NoRefName" -> "failed to get ref name"

\* A source that forgets the arm of ReadRef.
GitErrorSourceNoRef(e) ==
    IF e.kind \in {"NoCwd", "CanonicalCwd", "ReadGitFile", "ReadHead"}
    THEN e.io
    ELSE None

\* <GitError as Error>::source: the wrapped I/O error of the kinds that have one
GitErrorSource(e) ==
    IF e.kind \in {"NoCwd", "CanonicalCwd", "ReadGitFile", "ReadHead", "ReadRef"}
    THEN e.io
    ELSE None

\* <MainError as Display>::fmt: the headline, then the error and its sources,
\* one per line (an io::Error has no source of its own)
MainErrorMessage(e) ==
    IF e.main = "NixShell"
    THEN "failed to get nix info\nCaused by:\nnot in a nix shell\n"
    ELSE "failed to get git info\nCaused by:\n" \o GitErrorMessage(e.inner) \o "\n"
         \o (IF GitErrorSource(e.inner).some
             THEN GitErrorSource(e.inner).val \o "\n" ELSE "")

(***************************************************************************)
(* get_cwd                                                                 *)
(***************************************************************************)

RECURSIVE Replace(_, _, _)
\* str::replace: every non-overlapping occurrence of a non-empty pat, from
\* the left
Replace(s, pat, rep) ==
    IF s = <<>> THEN <<>>
    ELSE IF StartsWith(s, pat)
    THEN rep \o Replace(SubSeq(s, Len(pat) + 1, Len(s)), pat, rep)
    ELSE <<Head(s)>> \o Replace(Tail(s), pat, rep)

\* get_cwd's shortening of PWD: HOME becomes ~, and every directory but the
\* last, the empty ones and ~ is cut to its first character
ShortenCwd(cwd0, home) ==
    LET cwd == IF home.some /\ StartsWith(cwd0, home.val)
               THEN Replace(cwd0, home.val, <<"~">>) ELSE cwd0
        parts == Split(cwd, <<>>)
        last == parts[Len(parts)]
        short == [i \in 1..Len(parts) |->
                    IF parts[i] # last /\ parts[i] # <<>> /\ parts[i] # <<"~">>
                    THEN <<parts[i][1]>> ELSE parts[i]]
    IN  JoinPieces(short)

\* get_cwd
get_cwd(pwd, home) ==
    IF ~pwd.some THEN colored(bold(new("!!!")), Named("Red"))
    ELSE colored(bold(new(Str(ShortenCwd(pwd.val, home)))), Named("White"))

(***************************************************************************)
(* get_nix_shell                                                           *)
(***************************************************************************)

\* NixShellType::detect_shell_type
detect_shell_type(in_nix_shell, path) ==
    IF in_nix_shell.some
    THEN Ok(IF in_nix_shell.val = "pure" THEN "Pure"
            ELSE IF in_nix_shell.val = "impure" THEN "Impure" ELSE "Unknown")
    ELSE IF ~path.some THEN Err([kind |-> "NotInNixShell"])
    ELSE IF path.val THEN Ok("Unknown")
    ELSE Err([kind |-> "NotInNixShell"])

\* get_nix_shell
get_nix_shell(in_nix_shell, path) ==
    LET shell == detect_shell_type(in_nix_shell, path)
    IN  IF ~shell.ok THEN shell
        ELSE LET name == CASE shell.val = "Pure" -> "pure"
                           [] shell.val = "Impure" -> "impure"
                           [] shell.val = "Unknown" -> "unknown"
             IN  Ok(colored(bold(new("(nix: " \o name \o ")")),
                            ColorHex(<<"#", "E", "0", "6", "C", "7", "6">>)))

(***************************************************************************)
(* get_git_info                                                            *)
(***************************************************************************)

\* get_git_info's locals before its first statement.
GitLocals ==
    [dir_iter |-> None, tested |-> <<>>, repo |-> None,
     marker |-> [kind |-> "unknown"], git_dir |-> <<>>, head_content |-> None,
     refs_path |-> None, commit_hash |-> None, output |-> None, result |-> None]

\* What a call of the standard library that can fail with an I/O error and
\* has no other result gives.
CallOutcomes == {None} \cup {Some(e) : e \in IoErrors}

\* What fs::read_to_string gives for a file whose content is one of contents.
ReadOutcomes(contents) == {Err(e) : e \in IoErrors} \cup {Ok(c) : c \in contents}

\* Whether the text of a path can name a regular file: its last piece is a
\* name. The empty path, a path ending in a separator and a path ending in
\* "." or ".." name directories (or nothing), and reading one fails.
CanBeFile(p) ==
    LET pieces == Split(p, <<>>)
    IN  pieces[Len(pieces)] \notin {<<>>, <<".">>, <<".", ".">>}

\* Path::exists of a .git entry: the directory it is asked in is one of
\* fs.gitDirs
exists(p) == \E d \in fs.gitDirs : p = join(d, DOT_GIT)

Step(name, ok, io) == [step |-> name, ok |-> ok, io |-> io]
Read(file, base, path) == [file |-> file, base |-> base, path |-> path]

\* The statements that end get_git_info with an error: return Err(e).
GitFail(e) ==
    /\ git' = [git EXCEPT !.result = Some(Err(e))]
    /\ pc' = "git_return"

\* The tree get_git_info returns for the display text output.
GitDisplay(output) ==
    colored(bold(new(Str(output))), ColorHex(<<"#", "9", "8", "B", "F", "A", "E">>))

\* format!("({ref_name} {short_hash}{extension})")
FormatRef(ref_name, short_hash, extension) ==
    <<"(">> \o ref_name \o <<" ">> \o short_hash \o extension \o <<")">>

\* let cwd = env::current_dir().map_err(GitError::NoCwd)?;
GitCurrentDir ==
    /\ pc = "current_dir"
    /\ \E r \in CallOutcomes :
         /\ steps' = Append(steps, Step("current_dir", ~r.some, r))
         /\ IF r.some
            THEN GitFail(IoGitError("NoCwd", r.val))
            ELSE pc' = "canonicalize" /\ UNCHANGED git
    /\ UNCHANGED <<shell_type, tree, out, hexIn, hexOut, fs, reads, results,
                   debug, stdout, stderr, panic>>

\* let canonical_cwd = fs::canonicalize(cwd).map_err(GitError::CanonicalCwd)?;
\* let mut dir_iter = Some(&canonical_cwd as &Path);
GitCanonicalize ==
    /\ pc = "canonicalize"
    /\ \E r \in CallOutcomes :
         /\ steps' = Append(steps, Step("canonicalize", ~r.some, r))
         /\ IF r.some
            THEN GitFail(IoGitError("CanonicalCwd", r.val))
            ELSE /\ git' = [git EXCEPT !.dir_iter = Some(fs.cwd)]
                 /\ pc' = "walk"
    /\ UNCHANGED <<shell_type, tree, out, hexIn, hexOut, fs, reads, results,
                   debug, stdout, stderr, panic>>

\* A loop turn that keeps walking while a higher directory also has the
\* entry, and so ends at the outermost repository.
WalkTestOutermost(dir) ==
    IF exists(join(dir, DOT_GIT))
       /\ ~(\E d \in fs.gitDirs : Len(d) < Len(dir))
    THEN /\ git' = [git EXCEPT !.tested = Append(@, dir), !.repo = Some(dir)]
         /\ steps' = Append(steps, Step("locate", TRUE, None))
         /\ pc' = "marker"
    ELSE /\ git' = [git EXCEPT !.tested = Append(@, dir),
                               !.dir_iter = parent(dir)]
         /\ pc' = "walk"
         /\ UNCHANGED steps

\* The loop's test of one directory, from the break when it has the entry.
WalkTest(dir) ==
    IF exists(join(dir, DOT_GIT))
    THEN /\ git' = [git EXCEPT !.tested = Append(@, dir), !.repo = Some(dir)]
         /\ steps' = Append(steps, Step("locate", TRUE, None))
         /\ pc' = "marker"
    ELSE /\ git' = [git EXCEPT !.tested = Append(@, dir),
                               !.dir_iter = parent(dir)]
         /\ pc' = "walk"
         /\ UNCHANGED steps

\* One turn of the while loop, or its exit with dir_iter None and
\* let repo = dir_iter.ok_or(GitError::NotGitRepo)?;
GitWalk ==
    /\ pc = "walk"
    /\ IF git.dir_iter.some
       THEN WalkTest(git.dir_iter.val)
       ELSE /\ steps' = Append(steps, Step("locate", FALSE, None))
            /\ GitFail(PlainGitError("NotGitRepo"))
    /\ UNCHANGED <<shell_type, tree, out, hexIn, hexOut, fs, reads, results,
                   debug, stdout, stderr, panic>>

\* A marker target that keeps the whitespace around the path.
MarkerTargetUntrimmed(git_content) == strip_prefix(git_content, PREFIX)

\* The metadata directory a marker file's content names, if it names one.
MarkerTarget(git_content) ==
    LET v == strip_prefix(git_content, PREFIX)
    IN  IF v.some THEN Some(trim(v.val)) ELSE None

\* let mut git_dir = repo.join(".git"); and, if it is a file, the reading of
\* it and the match on its content
GitMarker ==
    /\ pc = "marker"
    /\ LET marker == join(git.repo.val, DOT_GIT)
       IN  \E is_file \in BOOLEAN :
             IF ~is_file
             THEN /\ git' = [git EXCEPT !.marker = [kind |-> "dir"],
                                            !.git_dir = marker]
                  /\ pc' = "head"
                  /\ UNCHANGED <<steps, reads>>
             ELSE \E r \in ReadOutcomes(MarkerContents) :
                    /\ reads' = Append(reads, Read("marker", git.repo.val, marker))
                    /\ IF ~r.ok
                       THEN /\ steps' = Append(steps, Step("read_marker", FALSE,
                                                           Some(r.err)))
                            /\ GitFail(IoGitError("ReadGitFile", r.err))
                       ELSE IF MarkerTarget(r.val).some
                       THEN /\ steps' = Append(steps, Step("read_marker", TRUE, None))
                            /\ git' = [git EXCEPT
                                     !.marker = [kind |-> "file", content |-> r.val],
                                     !.git_dir = MarkerTarget(r.val).val]
                            /\ pc' = "head"
                       ELSE /\ steps' = Append(steps, Step("read_marker", FALSE, None))
                            /\ GitFail(PlainGitError("UnexpectedGitContent"))
    /\ UNCHANGED <<shell_type, tree, out, hexIn, hexOut, fs, results, debug,
                   stdout, stderr, panic>>

\* None => head_content[..14].to_string(), and the Ok of the function's end
DetachedHead(head_content) ==
    IF SliceOk(head_content, 0, DetachedLen)
    THEN /\ git' = [git EXCEPT !.head_content = Some(head_content),
                       !.output = Some(ByteRange(head_content, 0, DetachedLen)),
                       !.result = Some(Ok(GitDisplay(
                           ByteRange(head_content, 0, DetachedLen))))]
         /\ pc' = "git_return"
         /\ UNCHANGED panic
    ELSE /\ git' = [git EXCEPT !.head_content = Some(head_content)]
         /\ pc' = "panicked"
         /\ panic' = "head_content[..14]"

\* let head_content = fs::read_to_string(git_dir.join("HEAD"))
\*     .map_err(GitError::ReadHead)?; and the match on its prefix
GitHead ==
    /\ pc = "head"
    /\ \E r \in ReadOutcomes(HeadContents) :
         /\ reads' = Append(reads, Read("HEAD", git.git_dir,
                                        join(git.git_dir, HEAD_FILE)))
         /\ steps' = Append(steps, Step("read_head", r.ok,
                                        IF r.ok THEN None ELSE Some(r.err)))
         /\ IF ~r.ok
            THEN GitFail(IoGitError("ReadHead", r.err)) /\ UNCHANGED panic
            ELSE IF strip_prefix(r.val, REF_PREFIX).some
            THEN /\ git' = [git EXCEPT !.head_content = Some(r.val),
                       !.refs_path = Some(trim(strip_prefix(r.val, REF_PREFIX).val))]
                 /\ pc' = "ref"
                 /\ UNCHANGED panic
            ELSE DetachedHead(r.val)
    /\ UNCHANGED <<shell_type, tree, out, hexIn, hexOut, fs, results, debug,
                   stdout, stderr>>

\* The Some(refs_path) arm after the reference file is read: the short hash,
\* the reference name, the extension and the display.
SymbolicRef(refs_path, commit_hash) ==
    IF ~SliceOk(commit_hash, 0, ShortHashLen)
    THEN /\ git' = [git EXCEPT !.commit_hash = Some(commit_hash)]
         /\ pc' = "panicked"
         /\ panic' = "commit_hash[..5]"
    ELSE IF ~file_name(refs_path).some
    THEN /\ git' = [git EXCEPT !.commit_hash = Some(commit_hash),
                       !.result = Some(Err(PlainGitError("NoRefName")))]
         /\ pc' = "git_return"
         /\ UNCHANGED panic
    ELSE LET short_hash == ByteRange(commit_hash, 0, ShortHashLen)
             ref_name == file_name(refs_path).val
             extension == IF Len(commit_hash) > TruncateOver
                          THEN <<".", ".">> ELSE <<>>
         IN  /\ git' = [git EXCEPT !.commit_hash = Some(commit_hash),
                           !.output = Some(FormatRef(ref_name, short_hash, extension)),
                           !.result = Some(Ok(GitDisplay(
                               FormatRef(ref_name, short_hash, extension))))]
             /\ pc' = "git_return"
             /\ UNCHANGED panic

\* let commit_hash = fs::read_to_string(git_dir.join(refs_path))
\*     .map_err(GitError::ReadRef)?; and the rest of the Some arm
GitRef ==
    /\ pc = "ref"
    /\ LET path == join(git.git_dir, git.refs_path.val)
       IN  \E r \in ReadOutcomes(IF CanBeFile(path) THEN RefContents ELSE {}) :
             /\ reads' = Append(reads, Read("ref", git.git_dir, path))
             /\ steps' = Append(steps, Step("read_ref", r.ok,
                                            IF r.ok THEN None ELSE Some(r.err)))
             /\ IF ~r.ok
                THEN GitFail(IoGitError("ReadRef", r.err)) /\ UNCHANGED panic
                ELSE SymbolicRef(git.refs_path.val, r.val)
    /\ UNCHANGED <<shell_type, tree, out, hexIn, hexOut, fs, results, debug,
                   stdout, stderr>>

(***************************************************************************)
(* main                                                                    *)
(***************************************************************************)

\* let shell_type = env::var("PROMPT_SHELL_TYPE").expect(...);
MainShellType ==
    /\ pc = "main"
    /\ \E v \in ShellTypes :
         IF v.some
         THEN shell_type' = v.val /\ pc' = "get_cwd" /\ UNCHANGED panic
         ELSE /\ pc' = "panicked"
              /\ panic' = "Prompt shell type is unspecified"
              /\ UNCHANGED shell_type
    /\ UNCHANGED <<tree, out, hexIn, hexOut, fs, git, steps, reads, results,
                   debug, stdout, stderr>>

\* The vector's first element: Ok(get_cwd())
GetCwd ==
    /\ pc = "get_cwd"
    /\ \E pwd \in PwdValues, home \in HomeValues :
         results' = <<Ok(get_cwd(pwd, home))>>
    /\ pc' = "current_dir"
    /\ UNCHANGED <<shell_type, tree, out, hexIn, hexOut, fs, git, steps, reads,
                   debug, stdout, stderr, panic>>

\* get_git_info's return into the vector's second element,
\* get_git_info().map_err(MainError::Git); its locals end with the call.
GitReturn ==
    /\ pc = "git_return"
    /\ results' = Append(results,
                         IF git.result.val.ok THEN git.result.val
                         ELSE Err([main |-> "Git", inner |-> git.result.val.err]))
    /\ git' = GitLocals
    /\ steps' = <<>>
    /\ reads' = <<>>
    /\ pc' = "get_nix_shell"
    /\ UNCHANGED <<shell_type, tree, out, hexIn, hexOut, fs, debug, stdout,
                   stderr, panic>>

\* The vector's third element: get_nix_shell().map_err(MainError::NixShell)
GetNixShell ==
    /\ pc = "get_nix_shell"
    /\ \E in_nix_shell \in InNixShellValues, path \in PathValues :
         LET r == get_nix_shell(in_nix_shell, path)
         IN  results' = Append(results,
                               IF r.ok THEN r
                               ELSE Err([main |-> "NixShell", inner |-> r.err]))
    /\ pc' = "assemble"
    /\ UNCHANGED <<shell_type, tree, out, hexIn, hexOut, fs, git, steps, reads,
                   debug, stdout, stderr, panic>>

is_ok(r) == r.ok
is_err(r) == ~r.ok

\* .into_iter().partition(Result::is_ok): the Ok results and the others, each
\* in the vector's order
partition(v) == <<SelectSeq(v, is_ok), SelectSeq(v, is_err)>>

RECURSIVE Joined(_, _)
\* components.map(|s| format!("{} ", s.to_ansi(&escape_ansi))).join("")
Joined(components, shell) ==
    IF components = <<>> THEN ""
    ELSE to_ansi(Head(components), shell) \o " " \o Joined(Tail(components), shell)

\* A debug test that takes every set value for on.
DebugOnWhenSet(v) == v.some

\* Whether main prints the errors: Ok("1") == env::var("PROMPT_DEBUG")
DebugOn(v) == v = Some("1")

\* The rest of main: the partition, the errors to standard error when
\* PROMPT_DEBUG is "1", and the print of the line.
MainAssemble ==
    /\ pc = "assemble"
    /\ \E v \in DebugValues :
         LET parts == partition(results)
             components == [i \in 1..Len(parts[1]) |-> parts[1][i].val]
             errors == [i \in 1..Len(parts[2]) |-> parts[2][i].err]
         IN  /\ debug' = v
             /\ stderr' = IF DebugOn(v)
                          THEN stderr \o [i \in 1..Len(errors) |->
                                            MainErrorMessage(errors[i]) \o "\n"]
                          ELSE stderr
             /\ stdout' = stdout \o " " \o Joined(components, shell_type) \o "-> "
    /\ pc' = "done"
    /\ UNCHANGED <<shell_type, tree, out, hexIn, hexOut, fs, git, steps, reads,
                   results, panic>>

Init ==
    /\ pc = "main"
    /\ shell_type = ""
    /\ tree = None
    /\ out = None
    /\ hexIn = <<>>
    /\ hexOut = None
    /\ fs \in FileSystems
    /\ git = GitLocals
    /\ steps = <<>>
    /\ reads = <<>>
    /\ results = <<>>
    /\ debug = None
    /\ stdout = ""
    /\ stderr = <<>>
    /\ panic = ""

Next ==
    \/ MainShellType
    \/ GetCwd
    \/ GitCurrentDir
    \/ GitCanonicalize
    \/ GitWalk
    \/ GitMarker
    \/ GitHead
    \/ GitRef
    \/ GitReturn
    \/ GetNixShell
    \/ MainAssemble

\* One run of main.
Spec == Init /\ [][Next]_vars

(***************************************************************************)
(* The rendering run: a tree built by the builders, then rendered          *)
(***************************************************************************)

\* A tree has at most MaxWrap wrappers.
MaxWrap == 3

LeafTexts == {"x", "a b"}

\* The shell types main's closure tells apart, and one it does not.
EscapeShells == {"zsh", "bash", "fish"}

TreeColors == {Named("Red"), ColorRgb(1, 2, 3),
               ColorHex(<<"#", "0", "0", "f", "f", "0", "0">>),
               ColorHex(<<"0", Eacute, "0", "0", "0">>)}

RenderFrame == UNCHANGED <<shell_type, out, hexIn, hexOut, fs, git, steps, reads,
                           results, debug, stdout, stderr, panic, pc>>

WrapBold ==
    /\ pc = "build" /\ Depth(tree) < MaxWrap
    /\ tree' = bold(tree)
    /\ RenderFrame

WrapColored ==
    /\ pc = "build" /\ Depth(tree) < MaxWrap
    /\ \E c \in TreeColors : tree' = colored(tree, c)
    /\ RenderFrame

WrapBackground ==
    /\ pc = "build" /\ Depth(tree) < MaxWrap
    /\ \E c \in TreeColors : tree' = background(tree, c)
    /\ RenderFrame

WrapUnderlined ==
    /\ pc = "build" /\ Depth(tree) < MaxWrap
    /\ tree' = underlined(tree)
    /\ RenderFrame

WrapItalic ==
    /\ pc = "build" /\ Depth(tree) < MaxWrap
    /\ tree' = italic(tree)
    /\ RenderFrame

\* tree.to_ansi(&escape_ansi), for the closure of one shell type
Render ==
    /\ pc = "build"
    /\ \E sh \in EscapeShells :
         /\ shell_type' = sh
         /\ IF TreePanics(tree)
            THEN pc' = "panicked" /\ panic' = "hex[a..b]" /\ UNCHANGED out
            ELSE pc' = "rendered" /\ out' = Some(to_ansi(tree, sh)) /\ UNCHANGED panic
    /\ UNCHANGED <<tree, hexIn, hexOut, fs, git, steps, reads, results, debug,
                   stdout, stderr>>

InitAnsi ==
    /\ pc = "build"
    /\ shell_type = ""
    /\ tree \in {new(t) : t \in LeafTexts}
    /\ out = None
    /\ hexIn = <<>>
    /\ hexOut = None
    /\ fs = [cwd |-> <<"/">>, gitDirs |-> {}]
    /\ git = GitLocals
    /\ steps = <<>>
    /\ reads = <<>>
    /\ results = <<>>
    /\ debug = None
    /\ stdout = ""
    /\ stderr = <<>>
    /\ panic = ""

NextAnsi ==
    \/ WrapBold
    \/ WrapColored
    \/ WrapBackground
    \/ WrapUnderlined
    \/ WrapItalic
    \/ Render

SpecAnsi == InitAnsi /\ [][NextAnsi]_vars

(***************************************************************************)
(* The hex run: hex_to_rgb applied to one string                           *)
(***************************************************************************)

\* The strings tried have at most MaxHexLen characters.
MaxHexLen == 7

HexAlphabet == {"#", "0", "f", "z", "+", Eacute}

HexInputs ==
    UNION {[1..n -> HexAlphabet] : n \in 0..MaxHexLen}
    \cup {<<"a", "b", "c">>, <<"#", "0", "0", "f", "f", "0", "0">>, <<"z", "z", "z", "z", "z", "z">>, <<"#", "E", "0", "6", "C", "7", "6">>, <<"#", "9", "8", "B", "F", "A", "E">>}

\* Color::hex_to_rgb(hexIn)
HexParse ==
    /\ pc = "hex"
    /\ hexOut' = Some(hex_to_rgb(hexIn))
    /\ pc' = "hex_done"
    /\ UNCHANGED <<shell_type, tree, out, hexIn, fs, git, steps, reads, results,
                   debug, stdout, stderr, panic>>

InitHex ==
    /\ pc = "hex"
    /\ shell_type = ""
    /\ tree = None
    /\ out = None
    /\ hexIn \in HexInputs
    /\ hexOut = None
    /\ fs = [cwd |-> <<"/">>, gitDirs |-> {}]
    /\ git = GitLocals
    /\ steps = <<>>
    /\ reads = <<>>
    /\ results = <<>>
    /\ debug = None
    /\ stdout = ""
    /\ stderr = <<>>
    /\ panic = ""

NextHex == HexParse

SpecHex == InitHex /\ [][NextHex]_vars

(***************************************************************************)
(* Properties                                                              *)
(***************************************************************************)

RECURSIVE StartsOutsideIn(_, _)
\* The escaped start codes of a tree's wrappers, outermost first.
StartsOutsideIn(t, shell) ==
    IF t.tag = "Default" THEN ""
    ELSE escape_ansi(shell, StartCode(t)) \o StartsOutsideIn(t.inner, shell)

RECURSIVE EndsInsideOut(_, _)
\* The escaped end codes of a tree's wrappers, innermost first.
EndsInsideOut(t, shell) ==
    IF t.tag = "Default" THEN ""
    ELSE EndsInsideOut(t.inner, shell) \o escape_ansi(shell, EndCode(t))

RECURSIVE LeafText(_)
LeafText(t) == IF t.tag = "Default" THEN t.val ELSE LeafText(t.inner)

BoldRedX == bold(colored(new("x"), Named("Red")))

\* C1: to_ansi renders a tree as the escaped start codes of its wrappers from
\* the outermost to the innermost, then the leaf's text as it is (not passed
\* to the escape function), then the escaped end codes from the innermost to
\* the outermost; bold(colored(leaf "x", Red)) with the identity escape is
\* ESC[1m ESC[31m x ESC[39m ESC[22m without the spaces.
C1_NestingOrder ==
    pc = "rendered" =>
        /\ out = Some(StartsOutsideIn(tree, shell_type) \o LeafText(tree)
                        \o EndsInsideOut(tree, shell_type))
        /\ (tree = BoldRedX /\ shell_type = "fish")
               => out = Some("ESC[1mESC[31mxESC[39mESC[22m")
        /\ (tree = BoldRedX /\ shell_type = "zsh")
               => out = Some("%{ESC[1m%}%{ESC[31m%}x%{ESC[39m%}%{ESC[22m%}")

C1_Witness ==
    /\ pc = "rendered"
    /\ tree = BoldRedX
    /\ shell_type = "fish"
    /\ out = Some("ESC[1mESC[31mxESC[39mESC[22m")

\* What the claim gives for a hex string: white unless, after one optional
\* leading '#', exactly six hex digits remain, and then the three bytes.
ClaimedRgb(hex) ==
    LET h == IF hex # <<>> /\ Head(hex) = "#" THEN Tail(hex) ELSE hex
        Byte(i) == 16 * to_digit(h[i]) + to_digit(h[i + 1])
    IN  IF Len(h) = 6 /\ \A i \in 1..6 : to_digit(h[i]) >= 0
        THEN Rgb(Byte(1), Byte(3), Byte(5))
        ELSE Rgb(255, 255, 255)

\* C2: hex_to_rgb strips an optional leading '#', requires exactly six hex
\* characters, returns the whole triple (255,255,255) on any parse failure
\* and the three parsed bytes on a well-formed string.
C2_HexFallback ==
    pc = "hex_done" => hexOut = Some(ClaimedRgb(hexIn))

\* The first n characters of s (all of s when it has fewer).
FirstChars(s, n) == SubSeq(s, 1, IF Len(s) < n THEN Len(s) ELSE n)

\* Whether the HEAD content read is not a symbolic reference.
Detached == git.head_content.some /\ ~StartsWith(git.head_content.val, REF_PREFIX)

\* C3: whenever the HEAD content read does not start with "ref: ", the
\* resolver returns exactly the first 14 characters of that content as the
\* display, whatever the content's length, and reads no reference file.
C3_DetachedHead ==
    Detached =>
        /\ git.result = Some(Ok(GitDisplay(
               FirstChars(git.head_content.val, DetachedLen))))
        /\ \A i \in 1..Len(reads) : reads[i].file # "ref"

\* The display the claim gives for a reference path and the content of its
\* file: the name, then the first 5 characters of the trimmed content, then
\* ".." if and only if the trimmed content is longer than 5 characters.
ClaimedRefDisplay(refs_path, content) ==
    LET id == trim(content)
    IN  FormatRef(file_name(refs_path).val, FirstChars(id, ShortHashLen),
                  IF Len(id) > ShortHashLen THEN <<".", ".">> ELSE <<>>)

\* C4: when HEAD is a symbolic reference, the short display is the first 5
\* characters of the trimmed reference-file content followed by ".." if and
\* only if that object id is longer than 5 characters; an id of 5 characters
\* or fewer gets no marker and the display is still produced.
C4_TruncationMarker ==
    (git.commit_hash.some /\ file_name(git.refs_path.val).some) =>
        git.output = Some(ClaimedRefDisplay(git.refs_path.val,
                                            git.commit_hash.val))

\* C5: get_git_info always ends by returning a display or a GitError, and
\* never aborts the run: the run is only ever aborted before a probe ran (by
\* main's own check of PROMPT_SHELL_TYPE), so main prints its line.
C5_NeverAborts ==
    pc = "panicked" => results = <<>>

\* The directory k levels above the working directory.
AncestorAbove(k) ==
    LET cs == Components(fs.cwd)
    IN  PathOf(TRUE, SubSeq(cs, 1, Len(cs) - k))

CwdDepth == Len(Components(fs.cwd))

NotGitRepoReturned ==
    git.result.some /\ ~git.result.val.ok
    /\ git.result.val.err.kind = "NotGitRepo"

\* C6: the upward search tests the canonical working directory and then
\* each ancestor from the nearest to the root; it stops at the first
\* directory that has a .git entry, which is the repository root; it makes
\* at most one test for each of the finitely many ancestors, and fails with
\* NotGitRepo only after all of them, the root included, were tested and
\* none has the entry.
C6_UpwardSearch ==
    LET t == git.tested
    IN  /\ Len(t) <= CwdDepth + 1
        /\ \A i \in 1..Len(t) : t[i] = AncestorAbove(i - 1)
        /\ \A i \in 1..Len(t) : (t[i] \in fs.gitDirs) => (i = Len(t) /\ git.repo = Some(t[i]))
        /\ git.repo.some => (t # <<>> /\ git.repo.val = t[Len(t)]
                             /\ git.repo.val \in fs.gitDirs)
        /\ pc \in {"marker", "head", "ref"} => git.repo.some
        /\ NotGitRepoReturned =>
               /\ Len(t) = CwdDepth + 1
               /\ t[Len(t)] = <<"/">>
               /\ \A i \in 1..Len(t) : t[i] \notin fs.gitDirs
        /\ (pc = "git_return" /\ Len(steps) >= 3 /\ fs.gitDirs # {})
               => ~NotGitRepoReturned

C6_Witness ==
    /\ fs.cwd = <<"/", "a", "/", "b">>
    /\ fs.gitDirs = {<<"/">>, <<"/", "a">>}
    /\ git.tested = << <<"/", "a", "/", "b">>, <<"/", "a">> >>
    /\ git.repo = Some(<<"/", "a">>)

\* base/rel as a path text.
Under(base, rel) == IF base = <<>> THEN rel ELSE base \o <<"/">> \o rel

\* The path a marker file's content names: what follows "gitdir: ", trimmed.
NamedByMarker == trim(SubSeq(git.marker.content, Len(PREFIX) + 1,
                             Len(git.marker.content)))

StepOrder == <<"current_dir", "canonicalize", "locate", "read_marker",
               "read_head", "read_ref">>

Rank(step) == CHOOSE i \in 1..Len(StepOrder) : StepOrder[i] = step

\* The error kind a failure of a step is reported with.
KindOfFailure(s) ==
    CASE s.step = "current_dir" -> "NoCwd"
      [] s.step = "canonicalize" -> "CanonicalCwd"
      [] s.step = "locate" -> "NotGitRepo"
      [] s.step = "read_marker" ->
             IF s.io.some THEN "ReadGitFile" ELSE "UnexpectedGitContent"
      [] s.step = "read_head" -> "ReadHead"
      [] s.step = "read_ref" -> "ReadRef"

\* C8: the steps of get_git_info run in the fixed order canonicalize, locate
\* root, read marker file, read HEAD, read reference file; no step is
\* attempted after one that failed; the error returned is of the kind of the
\* first (and so last attempted) step that failed, and each I/O kind carries
\* that step's I/O error as its source, the other kinds none.
C8_StepOrder ==
    /\ \A i, j \in 1..Len(steps) :
           i < j => Rank(steps[i].step) < Rank(steps[j].step)
    /\ \A i \in 1..Len(steps) : i < Len(steps) => steps[i].ok
    /\ \A i \in 1..Len(steps) :
           steps[i].io.some => (~steps[i].ok /\ steps[i].step # "locate")
    /\ (steps # <<>> /\ ~steps[Len(steps)].ok) =>
           /\ pc = "git_return"
           /\ git.result.some /\ ~git.result.val.ok
           /\ git.result.val.err.kind = KindOfFailure(steps[Len(steps)])
           /\ GitErrorSource(git.result.val.err) = steps[Len(steps)].io
           /\ git.result.val.err.kind \in
                  {"NoCwd", "CanonicalCwd", "ReadGitFile", "ReadHead", "ReadRef"}
                  => GitErrorSource(git.result.val.err).some
    /\ (git.result.some /\ ~git.result.val.ok
        /\ git.result.val.err.kind # "NoRefName") =>
           (steps # <<>> /\ ~steps[Len(steps)].ok)

C8_Witness ==
    /\ pc = "git_return"
    /\ Len(steps) = 6
    /\ git.result = Some(Err(IoGitError("ReadRef", "InvalidData")))
    /\ steps[6] = Step("read_ref", FALSE, Some("InvalidData"))

\* C9: when HEAD is a symbolic reference whose trimmed path has no final
\* component, get_git_info fails with NoRefName; otherwise the reference name
\* in the display is the final component of that path.
C9_NoRefName ==
    (pc = "git_return" /\ git.refs_path.some) =>
        IF file_name(git.refs_path.val).some
        THEN git.result.val.ok =>
                 StartsWith(git.output.val,
                            <<"(">> \o file_name(git.refs_path.val).val \o <<" ">>)
        ELSE git.result = Some(Err(PlainGitError("NoRefName")))

\* The segment the i-th probe contributes to the line.
Segment(i) ==
    IF results[i].ok THEN to_ansi(results[i].val, shell_type) \o " " ELSE ""

\* What main writes to standard error for the i-th probe when debugging.
Diagnostic(i) ==
    IF results[i].ok THEN <<>> ELSE <<MainErrorMessage(results[i].err) \o "\n">>

\* C10: whatever probes succeed, main prints a space, then the rendered
\* segments of exactly the successful probes in the order working directory,
\* git info, nix shell, each followed by one space, then "-> "; the failed
\* probes add nothing to standard output, and their messages go to standard
\* error only when PROMPT_DEBUG is exactly "1".
C10_Assembly ==
    pc = "done" =>
        /\ Len(results) = 3
        /\ results[1].ok
        /\ ~results[2].ok => results[2].err.main = "Git"
        /\ ~results[3].ok => results[3].err.main = "NixShell"
        /\ stdout = " " \o Segment(1) \o Segment(2) \o Segment(3) \o "-> "
        /\ stderr = IF debug = Some("1")
                    THEN Diagnostic(1) \o Diagnostic(2) \o Diagnostic(3)
                    ELSE <<>>

C10_Witness ==
    /\ pc = "done"
    /\ ~results[2].ok
    /\ results[3].ok
    /\ debug = Some("0")
    /\ shell_type = "bash"
    /\ stderr = <<>>

====
